---- MODULE Spec2Model ----
(***************************************************************************)
(* Model of the node dialog of src/features/modals/NodeModal/index.tsx:   *)
(* the edit session (editing / value / error), the two pure helpers       *)
(* normalizeNodeData and jsonPathToString, and handleSave's path-addressed *)
(* patch of the shared document.                                           *)
(*                                                                         *)
(* Texts (the draft, the normalized text, the rendered path) are sequences *)
(* of one-character strings.  JavaScript values and the nodes of the       *)
(* document's parse tree are records [type, value].  The shared document   *)
(* is held as the parse tree jsonc-parser builds from its text (white      *)
(* space and comments are not represented); the empty document is the      *)
(* tree Undefined.                                                         *)
(***************************************************************************)
EXTENDS Integers, Sequences, FiniteSets, TLC

(***************************************************************************)
(* Values                                                                  *)
(***************************************************************************)
Undefined == [type |-> "undefined", value |-> <<>>]
Null == [type |-> "null", value |-> <<>>]
Num(n) == [type |-> "number", value |-> n]
Str(s) == [type |-> "string", value |-> s]
Bool(b) == [type |-> "boolean", value |-> b]
\* an object is the ordered sequence of its <<key, value>> properties
Obj(props) == [type |-> "object", value |-> props]
Arr(items) == [type |-> "array", value |-> items]

\* path segments: typeof seg === "string" or typeof seg === "number"
Key(k) == [seg |-> "string", key |-> k, idx |-> 0]
Idx(i) == [seg |-> "number", key |-> <<>>, idx |-> i]

\* a row of NodeData["text"]; key <<>> stands for a missing (falsy) key
Row(k, v, t) == [key |-> k, value |-> v, type |-> t]

(***************************************************************************)
(* Text helpers                                                            *)
(***************************************************************************)
Digits == <<"0", "1", "2", "3", "4", "5", "6", "7", "8", "9">>

DigitVal(c) == CHOOSE d \in 0..9 : Digits[d + 1] = c

IsDigit(c) == \E d \in 0..9 : Digits[d + 1] = c

RECURSIVE NatToText(_)
NatToText(n) ==
    IF n < 10 THEN <<Digits[n + 1]>>
    ELSE NatToText(n \div 10) \o <<Digits[(n % 10) + 1]>>

\* String(n) for an integer n
NumToText(n) == IF n < 0 THEN <<"-">> \o NatToText(0 - n) ELSE NatToText(n)

\* Array.prototype.join
RECURSIVE Join(_, _)
Join(ss, sep) ==
    IF ss = <<>> THEN <<>>
    ELSE IF Len(ss) = 1 THEN ss[1]
    ELSE ss[1] \o sep \o Join(Tail(ss), sep)

\* the quoting JSON.stringify applies to a string: " and \ are escaped,
\* a line feed becomes \n
RECURSIVE Escape(_)
Escape(s) ==
    IF s = <<>> THEN <<>>
    ELSE IF Head(s) \in {"\"", "\\"} THEN <<"\\", Head(s)>> \o Escape(Tail(s))
    ELSE IF Head(s) = "\n" THEN <<"\\", "n">> \o Escape(Tail(s))
    ELSE <<Head(s)>> \o Escape(Tail(s))

Quote(s) == <<"\"">> \o Escape(s) \o <<"\"">>

\* `${v}` for a scalar v
TemplateText(v) ==
    CASE v.type = "string" -> v.value
      [] v.type = "number" -> NumToText(v.value)
      [] v.type = "boolean" -> IF v.value THEN <<"t", "r", "u", "e">>
                                ELSE <<"f", "a", "l", "s", "e">>
      [] v.type = "null" -> <<"n", "u", "l", "l">>
      [] OTHER -> <<"u", "n", "d", "e", "f", "i", "n", "e", "d">>

\* JSON.stringify(v) for a scalar v
ScalarJson(v) == IF v.type = "string" THEN Quote(v.value) ELSE TemplateText(v)

\* obj[k] = v on an object held as ordered properties
SetKey(props, k, v) ==
    IF \E i \in 1..Len(props) : props[i][1] = k
    THEN [i \in 1..Len(props) |-> IF props[i][1] = k THEN <<k, v>> ELSE props[i]]
    ELSE Append(props, <<k, v>>)

\* JSON.stringify(v): the compact text of a value
RECURSIVE JSONStringify(_)
JSONStringify(v) ==
    CASE v.type = "object" ->
           <<"{">>
           \o Join([i \in 1..Len(v.value) |->
                      Quote(v.value[i][1]) \o <<":">> \o JSONStringify(v.value[i][2])],
                   <<",">>)
           \o <<"}">>
      [] v.type = "array" ->
           <<"[">>
           \o Join([i \in 1..Len(v.value) |-> JSONStringify(v.value[i])], <<",">>)
           \o <<"]">>
      [] OTHER -> ScalarJson(v)

\* JSON.stringify(obj, null, 2) for an object of scalars
StringifyIndent2(props) ==
    IF props = <<>> THEN <<"{", "}">>
    ELSE <<"{", "\n">>
         \o Join([i \in 1..Len(props) |->
                    <<" ", " ">> \o Quote(props[i][1]) \o <<":", " ">>
                    \o ScalarJson(props[i][2])],
                 <<",", "\n">>)
         \o <<"\n", "}">>

(***************************************************************************)
(* normalizeNodeData, jsonPathToString                                     *)
(***************************************************************************)
RECURSIVE CollectRows(_, _)
CollectRows(nodeRows, obj) ==
    IF nodeRows = <<>> THEN obj
    ELSE LET row == Head(nodeRows) IN
         CollectRows(Tail(nodeRows),
                     IF row.type # "array" /\ row.type # "object" /\ row.key # <<>>
                     THEN SetKey(obj, row.key, row.value)
                     ELSE obj)

normalizeNodeData(nodeRows) ==
    IF Len(nodeRows) = 0 THEN <<"{", "}">>
    ELSE IF Len(nodeRows) = 1 /\ nodeRows[1].key = <<>>
    THEN TemplateText(nodeRows[1].value)
    ELSE StringifyIndent2(CollectRows(nodeRows, <<>>))

\* a renderer that leaves the quotes of string segments out
jsonPathToStringBare(path) ==
    IF Len(path) = 0 THEN <<"$">>
    ELSE LET segments == [i \in 1..Len(path) |->
                            IF path[i].seg = "number" THEN NumToText(path[i].idx)
                            ELSE path[i].key]
         IN <<"$", "[">> \o Join(segments, <<"]", "[">>) \o <<"]">>

jsonPathToString(path) ==
    IF Len(path) = 0 THEN <<"$">>
    ELSE LET segments == [i \in 1..Len(path) |->
                            IF path[i].seg = "number" THEN NumToText(path[i].idx)
                            ELSE <<"\"">> \o path[i].key \o <<"\"">>]
         IN <<"$", "[">> \o Join(segments, <<"]", "[">>) \o <<"]">>

(***************************************************************************)
(* JSON.parse over a text: integers, strings with the escapes \", \\ and   *)
(* \n, true, false, null, arrays and objects, blanks and line feeds.       *)
(***************************************************************************)
Fail(i) == [ok |-> FALSE, v |-> Undefined, next |-> i]

Done(v, i) == [ok |-> TRUE, v |-> v, next |-> i]

At(s, i) == IF i >= 1 /\ i <= Len(s) THEN s[i] ELSE "EOF"

RECURSIVE SkipWs(_, _)
SkipWs(s, i) == IF At(s, i) \in {" ", "\n"} THEN SkipWs(s, i + 1) ELSE i

\* the characters of a string literal whose opening quote precedes i
RECURSIVE ScanString(_, _, _)
ScanString(s, i, acc) ==
    LET c == At(s, i) IN
    CASE c = "EOF" -> [ok |-> FALSE, v |-> <<>>, next |-> i]
      [] c = "\n" -> [ok |-> FALSE, v |-> <<>>, next |-> i]
      [] c = "\"" -> [ok |-> TRUE, v |-> acc, next |-> i + 1]
      [] c = "\\" -> IF At(s, i + 1) \in {"\"", "\\"}
                     THEN ScanString(s, i + 2, Append(acc, s[i + 1]))
                     ELSE IF At(s, i + 1) = "n"
                     THEN ScanString(s, i + 2, Append(acc, "\n"))
                     ELSE [ok |-> FALSE, v |-> <<>>, next |-> i]
      [] OTHER -> ScanString(s, i + 1, Append(acc, c))

RECURSIVE ScanDigits(_, _, _)
ScanDigits(s, i, acc) ==
    IF IsDigit(At(s, i)) THEN ScanDigits(s, i + 1, acc * 10 + DigitVal(s[i]))
    ELSE [n |-> acc, next |-> i]

\* -? ( 0 | [1-9][0-9]* )
ParseNumber(s, i) ==
    LET neg == At(s, i) = "-"
        j == IF neg THEN i + 1 ELSE i
    IN IF ~IsDigit(At(s, j)) THEN Fail(i)
       ELSE IF s[j] = "0" THEN Done(Num(0), j + 1)
       ELSE LET d == ScanDigits(s, j, 0)
            IN Done(Num(IF neg THEN 0 - d.n ELSE d.n), d.next)

StartsWith(s, i, w) == i + Len(w) - 1 <= Len(s) /\ SubSeq(s, i, i + Len(w) - 1) = w

RECURSIVE ParseValue(_, _)
RECURSIVE ParseMember(_, _, _)
RECURSIVE ParseElement(_, _, _)

ParseValue(s, i) ==
    LET c == At(s, i) IN
    CASE c = "\"" -> LET r == ScanString(s, i + 1, <<>>)
                     IN IF r.ok THEN Done(Str(r.v), r.next) ELSE Fail(i)
      [] c = "{" -> LET j == SkipWs(s, i + 1)
                    IN IF At(s, j) = "}" THEN Done(Obj(<<>>), j + 1)
                       ELSE ParseMember(s, j, <<>>)
      [] c = "[" -> LET j == SkipWs(s, i + 1)
                    IN IF At(s, j) = "]" THEN Done(Arr(<<>>), j + 1)
                       ELSE ParseElement(s, j, <<>>)
      [] StartsWith(s, i, <<"t", "r", "u", "e">>) -> Done(Bool(TRUE), i + 4)
      [] StartsWith(s, i, <<"f", "a", "l", "s", "e">>) -> Done(Bool(FALSE), i + 5)
      [] StartsWith(s, i, <<"n", "u", "l", "l">>) -> Done(Null, i + 4)
      [] OTHER -> ParseNumber(s, i)

\* "key" : value, then , or }
ParseMember(s, i, acc) ==
    IF At(s, i) # "\"" THEN Fail(i)
    ELSE LET k == ScanString(s, i + 1, <<>>)
             c == SkipWs(s, k.next)
         IN IF ~k.ok \/ At(s, c) # ":" THEN Fail(i)
            ELSE LET r == ParseValue(s, SkipWs(s, c + 1))
                     e == SkipWs(s, r.next)
                     props == SetKey(acc, k.v, r.v)
                 IN IF ~r.ok THEN Fail(i)
                    ELSE IF At(s, e) = "}" THEN Done(Obj(props), e + 1)
                    ELSE IF At(s, e) = "," THEN ParseMember(s, SkipWs(s, e + 1), props)
                    ELSE Fail(i)

\* value, then , or ]
ParseElement(s, i, acc) ==
    LET r == ParseValue(s, i)
        e == SkipWs(s, r.next)
    IN IF ~r.ok THEN Fail(i)
       ELSE IF At(s, e) = "]" THEN Done(Arr(Append(acc, r.v)), e + 1)
       ELSE IF At(s, e) = "," THEN ParseElement(s, SkipWs(s, e + 1), Append(acc, r.v))
       ELSE Fail(i)

\* JSON.parse(text): ok = FALSE stands for the SyntaxError
JSONParse(text) ==
    LET r == ParseValue(text, SkipWs(text, 1))
    IN IF r.ok /\ SkipWs(text, r.next) = Len(text) + 1
       THEN [ok |-> TRUE, v |-> r.v]
       ELSE [ok |-> FALSE, v |-> Undefined]

(***************************************************************************)
(* jsonc-parser on the parse tree: findNodeAtLocation, modify (its         *)
(* setProperty), applyEdits.  An edit names the location it rewrites by    *)
(* its path instead of a text offset.                                      *)
(***************************************************************************)
\* index of the first property named k, 0 when there is none
FirstProp(props, k) ==
    IF \E i \in 1..Len(props) : props[i][1] = k
    THEN CHOOSE i \in 1..Len(props) :
            props[i][1] = k /\ \A j \in 1..(i - 1) : props[j][1] # k
    ELSE 0

RECURSIVE findNodeAtLocation(_, _)
findNodeAtLocation(root, path) ==
    IF root.type = "undefined" THEN Undefined
    ELSE IF path = <<>> THEN root
    ELSE LET segment == Head(path) IN
         IF segment.seg = "string"
         THEN IF root.type # "object" THEN Undefined
              ELSE LET i == FirstProp(root.value, segment.key)
                   IN IF i = 0 THEN Undefined
                      ELSE findNodeAtLocation(root.value[i][2], Tail(path))
         ELSE IF root.type # "array" \/ segment.idx < 0
                 \/ segment.idx >= Len(root.value)
              THEN Undefined
              ELSE findNodeAtLocation(root.value[segment.idx + 1], Tail(path))

\* an edit that stores the JSON text itself as a string value
ReplaceEditAsString(path, value) ==
    [op |-> "replace", path |-> path, last |-> Idx(0),
     content |-> JSONStringify(Str(JSONStringify(value)))]

\* the content of an edit is the text JSON.stringify(value)
ReplaceEdit(path, value) ==
    [op |-> "replace", path |-> path, last |-> Idx(0),
     content |-> JSONStringify(value)]

InsertEdit(parentPath, last, value) ==
    [op |-> "insert", path |-> parentPath, last |-> last,
     content |-> JSONStringify(value)]

Threw(message) == [threw |-> TRUE, message |-> message, edits |-> <<>>]

Edits(es) == [threw |-> FALSE, message |-> "", edits |-> es]

\* the loop of setProperty: pop segments while the parent does not exist,
\* wrapping the value in the structure that is missing
RECURSIVE PopMissing(_, _, _)
PopMissing(root, path, value) ==
    IF path = <<>>
    THEN [parent |-> Undefined, parentPath |-> <<>>, lastSegment |-> Idx(0),
          value |-> value]
    ELSE LET lastSegment == path[Len(path)]
             rest == SubSeq(path, 1, Len(path) - 1)
             parent == findNodeAtLocation(root, rest)
         IN IF parent.type = "undefined"
            THEN PopMissing(root, rest,
                            IF lastSegment.seg = "string"
                            THEN Obj(<< <<lastSegment.key, value>> >>)
                            ELSE Arr(<<value>>))
            ELSE [parent |-> parent, parentPath |-> rest,
                  lastSegment |-> lastSegment, value |-> value]

\* modify(text, path, value, options) for a value other than undefined and
\* indices >= 0
modify(root, path, value) ==
    LET c == PopMissing(root, path, value)
        parent == c.parent
        lastSegment == c.lastSegment
    IN IF parent.type = "undefined"
       THEN Edits(<<ReplaceEdit(<<>>, c.value)>>)
       ELSE IF parent.type = "object" /\ lastSegment.seg = "string"
       THEN IF findNodeAtLocation(parent, <<lastSegment>>).type # "undefined"
            THEN Edits(<<ReplaceEdit(Append(c.parentPath, lastSegment), c.value)>>)
            ELSE Edits(<<InsertEdit(c.parentPath, lastSegment, c.value)>>)
       ELSE IF parent.type = "array" /\ lastSegment.seg = "number"
       THEN IF Len(parent.value) > lastSegment.idx
            THEN Edits(<<ReplaceEdit(Append(c.parentPath, lastSegment), c.value)>>)
            ELSE IF Len(parent.value) = 0 \/ lastSegment.idx = 0
            THEN Edits(<<InsertEdit(c.parentPath, Idx(0), c.value)>>)
            ELSE Edits(<<InsertEdit(c.parentPath, Idx(Len(parent.value)), c.value)>>)
       ELSE Threw("Can not add "
                  \o (IF lastSegment.seg # "number" THEN "index" ELSE "property")
                  \o " to parent of type " \o parent.type)

\* the tree the parser builds from a text that was spliced into the document
ParsedContent(text) == JSONParse(text).v

\* an insertion that overwrites the siblings of what it inserts
EditedNodeClobber(node, e) ==
    IF e.op = "replace" THEN ParsedContent(e.content)
    ELSE IF e.last.seg = "string"
    THEN Obj(<< <<e.last.key, ParsedContent(e.content)>> >>)
    ELSE Arr(<<ParsedContent(e.content)>>)

\* the node an edit leaves at the place it addresses; an inserted property
\* is written as JSON.stringify(key): content
EditedNode(node, e) ==
    IF e.op = "replace" THEN ParsedContent(e.content)
    ELSE IF e.last.seg = "string"
    THEN Obj(Append(node.value,
                    <<ParsedContent(Quote(e.last.key)).value, ParsedContent(e.content)>>))
    ELSE Arr(SubSeq(node.value, 1, e.last.idx) \o <<ParsedContent(e.content)>>
             \o SubSeq(node.value, e.last.idx + 1, Len(node.value)))

RECURSIVE ApplyEdit(_, _, _)
ApplyEdit(node, path, e) ==
    IF path = <<>> THEN EditedNode(node, e)
    ELSE LET segment == Head(path) IN
         IF segment.seg = "string"
         THEN LET i == FirstProp(node.value, segment.key)
              IN Obj([node.value EXCEPT
                        ![i] = <<segment.key, ApplyEdit(node.value[i][2], Tail(path), e)>>])
         ELSE Arr([node.value EXCEPT
                     ![segment.idx + 1] =
                         ApplyEdit(node.value[segment.idx + 1], Tail(path), e)])

RECURSIVE applyEdits(_, _)
applyEdits(root, edits) ==
    IF edits = <<>> THEN root
    ELSE applyEdits(ApplyEdit(root, edits[Len(edits)].path, edits[Len(edits)]),
                    SubSeq(edits, 1, Len(edits) - 1))

(***************************************************************************)
(* Bounds and the inputs drawn by the actions                              *)
(***************************************************************************)
\* replacements of the shared document explored in one run
MaxSaves == 2

ka == <<"a">>
kb == <<"b">>
kc == <<"c">>
kl == <<"l">>

\* {"a": 1, "b": {"c": "x"}, "l": [1, "42"]}
DocFull ==
    Obj(<< <<ka, Num(1)>>,
           <<kb, Obj(<< <<kc, Str(<<"x">>)>> >>)>>,
           <<kl, Arr(<<Num(1), Str(<<"4", "2">>)>>)>> >>)

\* {"a": "42", "l": 3}: the document after "b" was removed and "l" replaced
DocSmall == Obj(<< <<ka, Str(<<"4", "2">>)>>, <<kl, Num(3)>> >>)

\* the document the dialog is mounted over; the nodes offered for selection
\* come from either, so the selected node may be older than the document
Docs == {DocFull, DocSmall}

NodePaths == {<<>>, <<Key(kb)>>, <<Key(kl), Idx(1)>>}

\* the texts a user types into the textarea
TypedTexts ==
    { <<"h", "i">>,
      <<"{", "\"", "c", "\"", ":", " ", "2", "}">> }

\* the message of the Error a store or the close callback throws: the empty
\* message is the one that takes the String(err) branch of the catch block
ThrownMessages == {""}

(***************************************************************************)
(* The nodes the graph view offers for selection                           *)
(***************************************************************************)
NoNode == [present |-> FALSE, path |-> <<>>, text |-> <<>>]

\* the row of a property: containers carry a summary, not their content
RowOf(k, v) ==
    IF v.type \in {"object", "array"}
    THEN Row(k, Str(NatToText(Len(v.value))), v.type)
    ELSE Row(k, v, v.type)

\* the node the graph shows for the value at path in doc
NodeAt(doc, path) ==
    LET v == findNodeAtLocation(doc, path)
    IN [present |-> TRUE,
        path |-> path,
        text |-> IF v.type = "object"
                 THEN [i \in 1..Len(v.value) |-> RowOf(v.value[i][1], v.value[i][2])]
                 ELSE <<RowOf(<<>>, v)>>]

SelectableNodes ==
    UNION {{NodeAt(d, p) : p \in {q \in NodePaths :
                                    findNodeAtLocation(d, q).type # "undefined"}} :
           d \in Docs}

(***************************************************************************)
(* State                                                                   *)
(***************************************************************************)
VARIABLES
    selectedNode,   \* useGraph: state.selectedNode (NoNode when there is none)
    json,           \* useJson: the shared document
    contents,       \* useFile: contents
    hasChanges,     \* useFile: hasChanges
    opened,         \* the dialog's opened prop
    editing,        \* useState(false)
    value,          \* useState(""): the draft text
    error,          \* useState(null): <<>> is null, <<m>> the message m
    saves,          \* number of setJson calls so far
    entryDraft,     \* while editing: the draft text Edit started from
    editedSince,    \* an Edit happened since the document was last replaced
    probe,          \* the last application of a pure helper: input and result
    last            \* the last event: its handler, its outcome, the calls it
                    \* made in order, and the session it started from

vars == <<selectedNode, json, contents, hasChanges, opened, editing, value, error,
          saves, entryDraft, editedSince, probe, last>>

session == <<selectedNode, json, contents, hasChanges, opened, editing, value, error,
             saves, entryDraft, editedSince, last>>

stores == <<json, contents, hasChanges>>

NoProbe == [fn |-> "none", in |-> <<>>, out |-> <<>>]

Event(op, outcome, calls) ==
    [op |-> op, outcome |-> outcome, calls |-> calls,
     from |-> [editing |-> editing, error |-> error # <<>>]]

Called(e, name) == \E i \in 1..Len(e.calls) : e.calls[i] = name

\* useJson: getJson() and setJson(newJson)
getJson == json

setJson(newJson) == json' = newJson /\ saves' = saves + 1

\* useFile: setContents({ contents, hasChanges, skipUpdate })
setFileContents(update) ==
    contents' = update.contents /\ hasChanges' = update.hasChanges

\* a file update that leaves the unsaved-changes flag raised
FileUpdateDirty(newJson) == [contents |-> newJson, hasChanges |-> TRUE]

\* the argument handleSave passes to setContents
FileUpdate(newJson) == [contents |-> newJson, hasChanges |-> FALSE]

\* err?.message || String(err) for a thrown Error
ErrorText(message) == IF message # "" THEN message ELSE "Error"

\* a reset that forgets to recompute the draft
ResetEffectKeepDraft(nodeData) ==
    /\ editing' = FALSE
    /\ error' = <<>>
    /\ value' = value

\* the effect on [nodeData, opened], for the node that is selected after
\* the event
ResetEffect(nodeData) ==
    /\ editing' = FALSE
    /\ error' = <<>>
    /\ value' = normalizeNodeData(nodeData.text)

Init ==
    /\ selectedNode \in SelectableNodes \cup {NoNode}
    /\ json \in Docs
    /\ contents = json
    /\ hasChanges = TRUE
    /\ opened = FALSE
    /\ editing = FALSE
    /\ value = normalizeNodeData(selectedNode.text)
    /\ error = <<>>
    /\ saves = 0
    /\ entryDraft = <<>>
    /\ editedSince = TRUE
    /\ probe = NoProbe
    /\ last = [op |-> "mount", outcome |-> "ok", calls |-> <<"effect">>,
               from |-> [editing |-> FALSE, error |-> FALSE]]

(***************************************************************************)
(* Events from outside the component                                       *)
(***************************************************************************)
\* the parent opens the dialog
Open ==
    /\ ~opened
    /\ opened' = TRUE
    /\ ResetEffect(selectedNode)
    /\ last' = Event("open", "ok", <<"effect">>)
    /\ entryDraft' = <<>>
    /\ UNCHANGED <<selectedNode, stores, saves, editedSince, probe>>

\* the graph view selects another node, or none
SelectNode ==
    \E n \in SelectableNodes \cup {NoNode} :
        /\ n # selectedNode
        /\ selectedNode' = n
        /\ ResetEffect(n)
        /\ last' = Event("select", "ok", <<"effect">>)
        /\ entryDraft' = <<>>
        /\ UNCHANGED <<stores, opened, saves, editedSince, probe>>

(***************************************************************************)
(* Handlers                                                                *)
(***************************************************************************)
handleEdit ==
    /\ editing' = TRUE
    /\ UNCHANGED <<value, error>>

\* a cancel that leaves the error message on display
handleCancelKeepError ==
    /\ editing' = FALSE
    /\ error' = error
    /\ value' = normalizeNodeData(selectedNode.text)

handleCancel ==
    /\ editing' = FALSE
    /\ error' = <<>>
    /\ value' = normalizeNodeData(selectedNode.text)

\* a save that never parses the draft
ParsedDraftRaw(text) == Str(text)

\* the value handleSave stores: JSON.parse(value), else the text itself
ParsedDraft(text) ==
    LET p == JSONParse(text) IN IF p.ok THEN p.v ELSE Str(text)

\* a catch block that swallows the error
SaveCatchSwallow(message) == error' = <<>>

\* the catch block of handleSave
SaveCatch(message) == error' = <<ErrorText(message)>>

\* a guard that lets a save without a node through
HasNodeAlways(nodeData) == TRUE

\* the guard of handleSave: if (!nodeData) return
HasNode(nodeData) == nodeData.present

\* handleSave; fault names the store call or callback that throws in this
\* run ("none": none does), thrown its message
handleSave(fault, thrown) ==
    IF ~HasNode(selectedNode)
    THEN /\ last' = Event("save", "noop", <<>>)
         /\ UNCHANGED <<selectedNode, stores, opened, editing, value, error, saves,
                      entryDraft>>
    ELSE IF fault = "getJson"
    THEN /\ last' = Event("save", "escaped", <<"getJson">>)
         /\ UNCHANGED <<selectedNode, stores, opened, editing, value, error, saves,
                      entryDraft>>
    ELSE
    LET originalJson == getJson
        parsed == ParsedDraft(value)
        path == selectedNode.path
        edits == modify(originalJson, path, parsed)
        newJson == applyEdits(originalJson, edits.edits)
    IN
    IF edits.threw
    THEN /\ SaveCatch(edits.message)
         /\ last' = Event("save", "error", <<"getJson", "modify">>)
         /\ UNCHANGED <<selectedNode, stores, opened, editing, value, saves,
                      entryDraft>>
    ELSE IF fault = "setJson"
    THEN /\ SaveCatch(thrown)
         /\ last' = Event("save", "error",
                          <<"getJson", "modify", "applyEdits", "setJson">>)
         /\ UNCHANGED <<selectedNode, stores, opened, editing, value, saves,
                      entryDraft>>
    ELSE IF fault = "setFileContents"
    THEN /\ setJson(newJson)
         /\ SaveCatch(thrown)
         /\ last' = Event("save", "error",
                          <<"getJson", "modify", "applyEdits", "setJson",
                            "setFileContents">>)
         /\ UNCHANGED <<selectedNode, contents, hasChanges, opened, editing, value,
                      entryDraft>>
    ELSE IF fault = "onClose"
    THEN /\ setJson(newJson)
         /\ setFileContents(FileUpdate(newJson))
         /\ editing' = FALSE
         /\ SaveCatch(thrown)
         /\ last' = Event("save", "error",
                          <<"getJson", "modify", "applyEdits", "setJson",
                            "setFileContents", "onClose">>)
         /\ entryDraft' = <<>>
         /\ UNCHANGED <<selectedNode, opened, value>>
    ELSE /\ setJson(newJson)
         /\ setFileContents(FileUpdate(newJson))
         /\ opened' = FALSE
         /\ ResetEffect(selectedNode)
         /\ last' = Event("save", "ok",
                          <<"getJson", "modify", "applyEdits", "setJson",
                            "setFileContents", "onClose", "effect">>)
         /\ entryDraft' = <<>>
         /\ UNCHANGED selectedNode

\* Modal onClose and CloseButton onClick: () => { onClose(); handleCancel(); }
closeHandler(fault) ==
    IF fault = "onClose"
    THEN /\ last' = Event("close", "escaped", <<"onClose">>)
         /\ UNCHANGED <<opened, editing, value, error, entryDraft>>
    ELSE /\ opened' = FALSE
         /\ handleCancel
         /\ entryDraft' = <<>>
         /\ last' = Event("close", "ok", <<"onClose", "handleCancel", "effect">>)

(***************************************************************************)
(* User events; the dialog's content is rendered only while it is opened   *)
(***************************************************************************)
Edit ==
    /\ opened /\ ~editing
    /\ handleEdit
    /\ last' = Event("edit", "ok", <<>>)
    /\ entryDraft' = value
    /\ editedSince' = TRUE
    /\ UNCHANGED <<selectedNode, stores, opened, saves, probe>>

Type ==
    \E text \in TypedTexts :
        /\ opened /\ editing
        /\ value' = text
        /\ last' = Event("type", "ok", <<>>)
        /\ UNCHANGED <<selectedNode, stores, opened, editing, error, saves,
                      entryDraft, editedSince, probe>>

Cancel ==
    /\ opened /\ editing
    /\ handleCancel
    /\ last' = Event("cancel", "ok", <<"handleCancel">>)
    /\ entryDraft' = <<>>
    /\ UNCHANGED <<selectedNode, stores, opened, saves, editedSince, probe>>

\* the calls of handleSave and of the close handlers that may throw
SaveFaults == {"none", "getJson", "setJson", "setFileContents", "onClose"}

CloseFaults == {"none", "onClose"}

SaveWith(faults) ==
    \E fault \in faults, thrown \in ThrownMessages :
        /\ opened /\ editing
        /\ saves < MaxSaves
        /\ fault = "none" => thrown = ""
        /\ handleSave(fault, thrown)
        /\ editedSince' = IF saves' > saves THEN FALSE ELSE editedSince
        /\ UNCHANGED probe

CloseWith(faults) ==
    \E fault \in faults :
        /\ opened
        /\ closeHandler(fault)
        /\ UNCHANGED <<selectedNode, stores, saves, editedSince, probe>>

Save == SaveWith(SaveFaults)

Close == CloseWith(CloseFaults)

Next == Open \/ SelectNode \/ Edit \/ Type \/ Cancel \/ Save \/ Close

Spec == Init /\ [][Next]_vars

(***************************************************************************)
(* The two pure helpers applied to bounded inputs                          *)
(***************************************************************************)
MaxRows == 2

MaxPathLen == 3

\* rows as the graph builds them: scalar rows with and without a key, two
\* rows with the same key, container rows
ProbeRows ==
    { Row(ka, Num(1), "number"),
      Row(ka, Str(<<"x">>), "string"),
      Row(kb, Arr(<<>>), "array"),
      Row(kc, Obj(<<>>), "object"),
      Row(<<>>, Num(5), "number"),
      Row(<<>>, Str(<<"x">>), "string") }

\* path segments; one key holds a double quote
ProbeSegments == {Key(ka), Key(kb), Key(<<"q", "\"">>), Idx(0), Idx(10)}

SeqsUpTo(S, n) == UNION {[1..k -> S] : k \in 0..n}

ApplyNormalize ==
    \E rows \in SeqsUpTo(ProbeRows, MaxRows) :
        /\ probe' = [fn |-> "normalizeNodeData", in |-> rows,
                     out |-> normalizeNodeData(rows)]
        /\ UNCHANGED session

ApplyPathToString ==
    \E path \in SeqsUpTo(ProbeSegments, MaxPathLen) :
        /\ probe' = [fn |-> "jsonPathToString", in |-> path,
                     out |-> jsonPathToString(path)]
        /\ UNCHANGED session

PureInit == Init /\ selectedNode = NoNode /\ json = DocFull

PureNext == ApplyNormalize \/ ApplyPathToString

PureSpec == PureInit /\ [][PureNext]_vars

\* the same dialog under a parent whose close callback never throws: it
\* flips the opened flag whenever it is called
SaveFlip == SaveWith(SaveFaults \ {"onClose"})

CloseFlip == CloseWith(CloseFaults \ {"onClose"})

NextFlip == Open \/ SelectNode \/ Edit \/ Type \/ Cancel \/ SaveFlip \/ CloseFlip

SpecFlip == Init /\ [][NextFlip]_vars

(***************************************************************************)
(* Vocabulary of the properties                                            *)
(***************************************************************************)
\* the value a draft text resolves to: its JSON parse, else the raw string
ResolvedValue(text) ==
    IF JSONParse(text).ok THEN JSONParse(text).v ELSE Str(text)

\* patch(D, path, r): the document with the computed edits applied
Patched(doc, path, r) == applyEdits(doc, modify(doc, path, r).edits)

ErrorShown == error # <<>> /\ error[1] # ""

SaveStep == last'.op = "save"

\* the handler ran to its end without raising and without an error message
SaveSucceeded == last'.op = "save" /\ last'.outcome = "ok"

\* modify raised: the last call handleSave made is modify
PatchStepFailed ==
    /\ last'.op = "save" /\ last'.outcome = "error"
    /\ last'.calls[Len(last'.calls)] = "modify"

Count(calls, name) == Cardinality({i \in 1..Len(calls) : calls[i] = name})

(***************************************************************************)
(* C1: when a save in Editing fails in the patch step, then after the      *)
(* handler the document, the file contents and its flag are what they      *)
(* were, the session is still in Editing with the draft as typed, a        *)
(* non-empty error message is set and the dialog is still open.            *)
(***************************************************************************)
C1_PatchFailureKeepsAll ==
    [][PatchStepFailed =>
          /\ json' = json
          /\ contents' = contents /\ hasChanges' = hasChanges
          /\ editing' /\ value' = value
          /\ error' # <<>> /\ error'[1] # ""
          /\ opened' /\ ~Called(last', "onClose")]_vars

C1_Witness ==
    /\ last.op = "save" /\ last.outcome = "error"
    /\ last.calls = <<"getJson", "modify">>
    /\ editing /\ value \in TypedTexts /\ ErrorShown /\ opened

(***************************************************************************)
(* C2: when a save in Editing with a selected node succeeds, the document  *)
(* becomes patch(D, node.path, r), D the document read at the save and r   *)
(* the resolved draft, the session is in Viewing and the close callback    *)
(* was invoked exactly once.                                               *)
(***************************************************************************)
C2_SuccessfulSavePatches ==
    [][SaveSucceeded =>
          /\ selectedNode.present
          /\ json' = Patched(json, selectedNode.path, ResolvedValue(value))
          /\ ~editing'
          /\ Count(last'.calls, "onClose") = 1]_vars

C2_Witness ==
    /\ last.op = "save" /\ last.outcome = "ok"
    /\ ~editing /\ ~opened
    /\ json \notin Docs

(***************************************************************************)
(* C3: after any save attempt either the document holds the patched text,  *)
(* the file contents hold the same text, the mode is Viewing and the       *)
(* dialog is closed, or none of document, file contents, mode and open     *)
(* state has changed.                                                      *)
(***************************************************************************)
C3_SaveAllOrNothing ==
    [][SaveStep =>
          \/ /\ json' = Patched(json, selectedNode.path, ResolvedValue(value))
             /\ contents' = json'
             /\ ~editing' /\ ~opened'
          \/ /\ json' = json /\ contents' = contents
             /\ editing' = editing /\ opened' = opened]_vars

(***************************************************************************)
(* C4: Cancel after any typing and failed saves leaves the session in      *)
(* Viewing, the error cleared and the draft equal to normalize(node.text), *)
(* which is the draft text Editing was entered with.                       *)
(***************************************************************************)
C4_CancelRestoresEntryDraft ==
    [][last'.op = "cancel" =>
          /\ ~editing' /\ error' = <<>>
          /\ value' = normalizeNodeData(selectedNode.text)
          /\ value' = entryDraft]_vars

(***************************************************************************)
(* C5: when the selected node or the opened flag changes, from Viewing or  *)
(* from Editing, the session ends in Viewing with the error cleared and    *)
(* the draft equal to normalize of the rows of the node now selected, "{}" *)
(* when there is none; the reset itself leaves the document alone.         *)
(***************************************************************************)
C5_ResetOnNodeOrOpenedChange ==
    [][(selectedNode' # selectedNode \/ opened' # opened) =>
          /\ ~editing' /\ error' = <<>>
          /\ value' = normalizeNodeData(selectedNode'.text)
          /\ (~selectedNode'.present => value' = <<"{", "}">>)
          /\ (last'.op \in {"open", "select"} => stores' = stores)]_vars

C5_Witness ==
    /\ last.op = "select" /\ last.from.editing /\ last.from.error
    /\ ~editing /\ error = <<>>
    /\ selectedNode.present /\ Len(selectedNode.text) > 1
    /\ value = normalizeNodeData(selectedNode.text)

(***************************************************************************)
(* C6: the document and the file contents are modified only by a           *)
(* successful save; every other event, a failed save included, leaves      *)
(* both stores unchanged.                                                  *)
(***************************************************************************)
C6_StoresChangeOnlyOnSuccess ==
    [][stores' # stores => SaveSucceeded]_vars

(***************************************************************************)
(* C7: a save whose node path addresses no location of the current         *)
(* document ends with an error message displayed, the session in Editing   *)
(* and the document unchanged; it never inserts structure.  Stated for the *)
(* saves in which no store and no callback raises.                         *)
(***************************************************************************)
C7_MissingPathIsAnError ==
    [][(SaveStep /\ (SaveSucceeded \/ PatchStepFailed)
        /\ findNodeAtLocation(json, selectedNode.path).type = "undefined") =>
          /\ error' # <<>> /\ error'[1] # ""
          /\ editing'
          /\ json' = json]_vars

(***************************************************************************)
(* C8: after a successful save the value at the node's path is the         *)
(* resolved draft: the raw draft string when the draft does not parse as   *)
(* JSON, its parsed value when it does.                                    *)
(***************************************************************************)
C8_SavedValueIsResolvedDraft ==
    [][SaveSucceeded =>
          findNodeAtLocation(json', selectedNode.path) = ResolvedValue(value)]_vars

(***************************************************************************)
(* C9: closing the dialog performs the cancel step first and the close     *)
(* step second, and ends in the state Cancel followed by close ends in.    *)
(***************************************************************************)
C9_CloseCancelsThenCloses ==
    [][last'.op = "close" =>
          /\ Len(last'.calls) >= 2
          /\ last'.calls[1] = "handleCancel" /\ last'.calls[2] = "onClose"
          /\ ~editing' /\ error' = <<>>
          /\ value' = normalizeNodeData(selectedNode.text)
          /\ ~opened']_vars

IsPrefix(a, b) == Len(a) <= Len(b) /\ SubSeq(b, 1, Len(a)) = a

\* every path that addresses a value of the tree
RECURSIVE PathsOf(_)
PathsOf(node) ==
    {<<>>} \cup
    (IF node.type = "object"
     THEN UNION {{<<Key(node.value[i][1])>> \o q : q \in PathsOf(node.value[i][2])} :
                    i \in 1..Len(node.value)}
     ELSE IF node.type = "array"
     THEN UNION {{<<Idx(i - 1)>> \o q : q \in PathsOf(node.value[i])} :
                    i \in 1..Len(node.value)}
     ELSE {})

IsScalar(v) == v.type \in {"null", "number", "string", "boolean"}

(***************************************************************************)
(* C11: every save attempt ends in exactly one of two outcomes: success,   *)
(* the document replaced and the dialog closed, or a displayed error       *)
(* message; no save attempt lets an exception escape the handler, none     *)
(* fails silently, also with no node selected and when reading the         *)
(* document fails.                                                         *)
(***************************************************************************)
C11_SaveEndsInSuccessOrError ==
    [][SaveStep =>
          /\ last'.outcome # "escaped"
          /\ (Called(last', "setJson") /\ saves' > saves /\ ~opened')
                 # (error' # <<>>)]_vars

(***************************************************************************)
(* C12: a save that succeeds changes only the value at the node's path:    *)
(* the value at every path q of the document before the save, q not a      *)
(* prefix of the node's path and the node's path not a prefix of q, is the  *)
(* same after it.                                                          *)
(***************************************************************************)
C12_PatchKeepsUnrelatedPaths ==
    [][SaveSucceeded =>
          \A q \in PathsOf(json) :
              (~IsPrefix(q, selectedNode.path) /\ ~IsPrefix(selectedNode.path, q))
                  => findNodeAtLocation(json', q) = findNodeAtLocation(json, q)]_vars

\* node "b" of {"a":1,"b":{"c":"x"},"l":[1,"42"]} saved as hi: a and l stay
C12_Witness ==
    /\ last.op = "save" /\ last.outcome = "ok"
    /\ selectedNode.path = <<Key(kb)>>
    /\ json = Obj(<< <<ka, Num(1)>>,
                     <<kb, Str(<<"h", "i">>)>>,
                     <<kl, Arr(<<Num(1), Str(<<"4", "2">>)>>)>> >>)

(***************************************************************************)
(* C13: round trip of the patch: when the node's path addresses a scalar   *)
(* of the document, reading that path in the document a successful save    *)
(* stored yields the value that was saved.                                 *)
(***************************************************************************)
C13_PatchRoundTrip ==
    [][(SaveSucceeded /\ IsScalar(findNodeAtLocation(json, selectedNode.path))) =>
          findNodeAtLocation(json', selectedNode.path) = ResolvedValue(value)]_vars

\* the scalar l[1] of the document replaced by the object {"c": 2}
C13_Witness ==
    /\ last.op = "save" /\ last.outcome = "ok"
    /\ selectedNode.path = <<Key(kl), Idx(1)>>
    /\ json = Obj(<< <<ka, Num(1)>>,
                     <<kb, Obj(<< <<kc, Str(<<"x">>)>> >>)>>,
                     <<kl, Arr(<<Num(1), Obj(<< <<kc, Num(2)>> >>)>>)>> >>)

(***************************************************************************)
(* C17: Edit followed at once by Save, nothing typed in between, leaves    *)
(* the value at the node's path unchanged, for every node of the document: *)
(* a string whose text is valid JSON keeps its string type, an object node *)
(* keeps its container children.                                           *)
(***************************************************************************)
C17_EditThenSaveKeepsValue ==
    [][(/\ SaveSucceeded
        /\ last.op = "edit"
        /\ findNodeAtLocation(json, selectedNode.path).type # "undefined"
        /\ selectedNode = NodeAt(json, selectedNode.path)) =>
          findNodeAtLocation(json', selectedNode.path)
              = findNodeAtLocation(json, selectedNode.path)]_vars

(***************************************************************************)
(* C19: Save while no node is selected is a complete no-op: document       *)
(* store, file store, mode, draft, error and the open state are unchanged  *)
(* and the document is not read.                                           *)
(***************************************************************************)
C19_SaveWithoutNodeIsNoOp ==
    [][(SaveStep /\ ~selectedNode.present) =>
          /\ UNCHANGED <<json, contents, hasChanges, saves>>
          /\ UNCHANGED <<editing, value, error, opened>>
          /\ ~Called(last', "getJson")]_vars

C19_Witness ==
    /\ last.op = "save" /\ last.outcome = "noop"
    /\ ~selectedNode.present /\ opened /\ editing

(***************************************************************************)
(* C16: under a close callback that flips the opened flag, in every state  *)
(* reached after an event and its reset effect, a session in Viewing shows *)
(* no error and its draft is normalize of the selected node's rows; hence  *)
(* every entry into Editing starts from that draft with no error, also     *)
(* after a failed save followed by a successful one.                       *)
(***************************************************************************)
C16_ViewingIsClean ==
    (~editing \/ last.op = "edit") =>
        /\ error = <<>>
        /\ value = normalizeNodeData(selectedNode.text)

\* Viewing after a save that succeeded while the error of a failed save
\* was on display
C16_Witness ==
    /\ last.op = "save" /\ last.outcome = "ok"
    /\ last.from.error /\ last.from.editing
    /\ selectedNode.present /\ ~editing
    /\ error = <<>> /\ value = normalizeNodeData(selectedNode.text)

(***************************************************************************)
(* C18: Save and typing happen only in Editing, Edit only in Viewing, and  *)
(* a successful save leaves the session in Viewing; between any two        *)
(* replacements of the shared document there is an Edit, and no            *)
(* replacement happens while the session is in Viewing.                    *)
(***************************************************************************)
C18_EditBetweenReplacements ==
    [][/\ (last'.op \in {"save", "type"}) => editing
       /\ (last'.op = "edit") => ~editing
       /\ SaveSucceeded => ~editing'
       /\ (saves' > saves) => (editing /\ editedSince)]_vars

(***************************************************************************)
(* Vocabulary of the claims about the pure helpers                         *)
(***************************************************************************)
IsContainerRow(row) == row.type \in {"array", "object"}

\* the text is an object of n properties printed one per line, each line
\* indented by two blanks
PrettyTwoSpaces(text, n) ==
    IF n = 0 THEN text = <<"{", "}">>
    ELSE /\ Len(text) >= 2 /\ text[1] = "{" /\ text[Len(text)] = "}"
         /\ Cardinality({i \in 1..Len(text) : text[i] = "\n"}) = n + 1
         /\ \A i \in 1..Len(text) :
               text[i] = "\n" =>
                   \/ i = Len(text) - 1
                   \/ /\ i + 3 <= Len(text)
                      /\ text[i + 1] = " " /\ text[i + 2] = " " /\ text[i + 3] = "\""

\* the text parses to an object that holds the key and value of exactly the
\* rows in kept
MapsExactly(text, rows, kept) ==
    LET o == JSONParse(text)
    IN /\ o.ok /\ o.v.type = "object"
       /\ \A i \in kept :
             \E j \in 1..Len(o.v.value) :
                 o.v.value[j] = <<rows[i].key, rows[i].value>>
       /\ \A j \in 1..Len(o.v.value) :
             \E i \in kept : o.v.value[j] = <<rows[i].key, rows[i].value>>
       /\ PrettyTwoSpaces(text, Len(o.v.value))

\* "[N]" for a number, "["key"]" for a string, one after the other
RECURSIVE BracketedSegments(_)
BracketedSegments(path) ==
    IF path = <<>> THEN <<>>
    ELSE (IF Head(path).seg = "number"
          THEN <<"[">> \o NumToText(Head(path).idx) \o <<"]">>
          ELSE <<"[", "\"">> \o Head(path).key \o <<"\"", "]">>)
         \o BracketedSegments(Tail(path))

(***************************************************************************)
(* C14: normalize(rows) is "{}" for no rows, the bare value for one row    *)
(* without a key, and otherwise the 2-space pretty-printed object that     *)
(* maps key to value for exactly the rows whose type is neither array nor  *)
(* object, so every non-container row of the input appears in the output   *)
(* and no container row does.                                              *)
(***************************************************************************)
C14_EveryScalarRowAppears ==
    probe.fn = "normalizeNodeData" =>
        LET rows == probe.in
            kept == {i \in 1..Len(rows) : ~IsContainerRow(rows[i])}
        IN IF rows = <<>> THEN probe.out = <<"{", "}">>
           ELSE IF Len(rows) = 1 /\ rows[1].key = <<>>
           THEN probe.out = TemplateText(rows[1].value)
           ELSE MapsExactly(probe.out, rows, kept)

(***************************************************************************)
(* C15: pathToString is total; it returns "$" for the empty path and       *)
(* otherwise "$" followed by one bracketed segment per element in order,   *)
(* [N] for an integer and ["key"] for a string, the key not escaped.       *)
(***************************************************************************)
C15_PathToStringContract ==
    probe.fn = "jsonPathToString" =>
        /\ probe.in = <<>> => probe.out = <<"$">>
        /\ probe.out = <<"$">> \o BracketedSegments(probe.in)

\* pathToString(["a", 0, "b"]) = $["a"][0]["b"]
C15_Witness ==
    /\ probe.fn = "jsonPathToString"
    /\ probe.in = <<Key(ka), Idx(0), Key(kb)>>
    /\ probe.out = <<"$", "[", "\"", "a", "\"", "]", "[", "0", "]",
                     "[", "\"", "b", "\"", "]">>

====
